---- MODULE Spec2Model ----
(***************************************************************************)
(* A model of tools/performance_capture.py: the serial capture loop of     *)
(* capture_serial, the metric extractors, the aggregator                   *)
(* (calculate_summary), the two file reporters and main's exit status.     *)
(*                                                                         *)
(* A captured line is a sequence of segments.  A text segment stands for a *)
(* literal piece of the line; a cycles / bw / mips segment stands for a    *)
(* piece that one of the three regular expressions matches, with the       *)
(* integers its groups capture.  "s in line" is membership of a text       *)
(* segment, re.search is the first segment of the pattern's kind.  MIPS    *)
(* values are held in hundredths (2.07 MIPS is 207).                       *)
(***************************************************************************)
EXTENDS Integers, Sequences, FiniteSets, TLC

VARIABLES
    pc,          \* position of main / capture_serial
    noSave,      \* args.no_save
    port,        \* find_serial_port's result: <<>> for None, or <<index in ports_to_try>>
    ser,         \* the serial channel: "none", "open" or "closed"
    lines,       \* capture_serial's list of retained lines
    pending,     \* the exception propagating through the finally clause, or None
    interrupts,  \* interrupt signals delivered so far
    cur,         \* the line readline returned, before it is echoed and retained
    endedBy,     \* how the read loop ended, with the lines retained at that moment
    metrics,     \* extract_metrics' result
    summary,     \* calculate_summary's result
    printed,     \* print_summary has run
    transcript,  \* the raw capture files written, each the lines it holds
    ledger,      \* PERFORMANCE_TRACKING.md: whether it exists, and the pieces written to it
    ledger0,     \* the ledger as it was before the first step
    calls,       \* the <<summary, label>> of each append_to_tracking_doc call so far
    exitStatus   \* the process exit status, "running" before the exit

vars == <<pc, noSave, port, ser, lines, pending, interrupts, cur, endedBy,
          metrics, summary, printed, transcript, ledger, ledger0, calls, exitStatus>>

None == "None"

(***************************************************************************)
(* Bounds of the model.                                                    *)
(***************************************************************************)
MaxLines == 3        \* lines a modelled capture retains
MaxExtractLen == 6   \* lines handed to extract_metrics on its own
MaxMarkerLen == 3    \* marker lines handed to extract_metrics on its own
MaxBlocks == 3       \* profiler blocks handed to calculate_summary on its own
MaxCalls == 3        \* invocations of append_to_tracking_doc on its own
MaxInterrupts == 1   \* interrupt signals delivered during one capture

(***************************************************************************)
(* Sequences and dictionaries.                                             *)
(***************************************************************************)
SeqUpTo(S, n) == UNION {[1..k -> S] : k \in 0..n}

RECURSIVE SumSeq(_)
SumSeq(s) == IF s = <<>> THEN 0 ELSE Head(s) + SumSeq(Tail(s))

RECURSIVE SelectIdx(_, _, _)
\* the indices i of 1..n, ascending, with i \in S
SelectIdx(S, i, n) ==
    IF i > n THEN <<>>
    ELSE (IF i \in S THEN <<i>> ELSE <<>>) \o SelectIdx(S, i + 1, n)

EmptyDict == [k \in {} |-> 0]

Put(d, k, v) == [x \in (DOMAIN d) \cup {k} |-> IF x = k THEN v ELSE d[x]]

Get(d, k, default) == IF k \in DOMAIN d THEN d[k] ELSE default

(***************************************************************************)
(* Lines.                                                                  *)
(***************************************************************************)
Text(s) == [kind |-> "text", text |-> s, nums |-> <<>>]
Nums(k, n) == [kind |-> k, text |-> "", nums |-> n]

StartSentinel == "========== CPU PROFILER =========="
EndSentinel == "=================================="

L_EMPTY == <<>>
L_OTHER == <<Text("[BOOT] BasiliskII starting")>>
L_START == <<Text(StartSentinel)>>
L_END == <<Text(EndSentinel)>>
L_CYC == <<Nums("cycles", <<14, 11, 109, 89, 123>>)>>
L_PARTIAL == <<Text("Cycles/instr: fetch=14 (11%) exec=109 (89%)")>>
L_BW == <<Nums("bw", <<3204, 2122, 5327>>)>>
L_BCPU == <<Text("BOTTLENECK: CPU")>>
L_BPSRAM == <<Text("BOTTLENECK: PSRAM")>>
L_IPS == <<Text("[IPS] 2074192 instructions/sec "), Nums("mips", <<207>>)>>
L_CONN == <<Text("WiFi connected")>>
L_CONNLOW == <<Text("wifi connected")>>
L_FAIL == <<Text("assert failed")>>
L_FAILUP == <<Text("Assert Failed")>>
L_BOTH == <<Text("WiFi connected"), Text("ASSERT FAILED")>>

\* str.lower on the literals of the model's lines
LowerText(s) ==
    CASE s = "Assert Failed" -> "assert failed"
      [] s = "ASSERT FAILED" -> "assert failed"
      [] s = "WiFi connected" -> "wifi connected"
      [] s = "BOTTLENECK: CPU" -> "bottleneck: cpu"
      [] s = "BOTTLENECK: PSRAM" -> "bottleneck: psram"
      [] s = "[BOOT] BasiliskII starting" -> "[boot] basiliskii starting"
      [] s = "[IPS] 2074192 instructions/sec " -> "[ips] 2074192 instructions/sec "
      [] s = "Cycles/instr: fetch=14 (11%) exec=109 (89%)"
             -> "cycles/instr: fetch=14 (11%) exec=109 (89%)"
      [] s = StartSentinel -> "========== cpu profiler =========="
      [] OTHER -> s

Lower(line) ==
    [i \in 1..Len(line) |->
        IF line[i].kind = "text"
        THEN Text(LowerText(line[i].text)) ELSE line[i]]

\* s in line
Contains(line, s) ==
    \E i \in 1..Len(line) : line[i].kind = "text" /\ line[i].text = s

\* re.search(pattern, line): the groups of the first match, <<>> for no match
Search(kind, line) ==
    LET hits == {i \in 1..Len(line) : line[i].kind = kind}
    IN IF hits = {} THEN <<>>
       ELSE line[CHOOSE i \in hits : \A j \in hits : i <= j].nums

(***************************************************************************)
(* Metric extractors.                                                      *)
(***************************************************************************)
\* parse_ips_line: <<the MIPS value of the line (in hundredths)>>, <<>> for None
parse_ips_line(line) ==
    LET match == Search("mips", line)
    IN IF match # <<>> THEN <<match[1]>> ELSE <<>>

\* the body of parse_profiler_block's loop, for one line
ParseBlockLine(m, line) ==
    LET cycles_match == Search("cycles", line)
        bw_match == Search("bw", line)
        m1 == IF cycles_match # <<>>
              THEN Put(Put(Put(Put(Put(m,
                       "fetch_cycles", cycles_match[1]),
                       "fetch_pct", cycles_match[2]),
                       "exec_cycles", cycles_match[3]),
                       "exec_pct", cycles_match[4]),
                       "total_cycles", cycles_match[5])
              ELSE m
        m2 == IF bw_match # <<>>
              THEN Put(Put(Put(m1,
                       "psram_read_kbps", bw_match[1]),
                       "psram_write_kbps", bw_match[2]),
                       "psram_total_kbps", bw_match[3])
              ELSE m1
    IN IF Contains(line, "BOTTLENECK: CPU") THEN Put(m2, "bottleneck", "CPU")
       ELSE IF Contains(line, "BOTTLENECK: PSRAM") THEN Put(m2, "bottleneck", "PSRAM")
       ELSE m2

RECURSIVE ParseBlockFrom(_, _)
ParseBlockFrom(m, ls) ==
    IF ls = <<>> THEN m ELSE ParseBlockFrom(ParseBlockLine(m, Head(ls)), Tail(ls))

parse_profiler_block(ls) == ParseBlockFrom(EmptyDict, ls)

ExtractInit ==
    [mips_values |-> <<>>, profiler_blocks |-> <<>>,
     current_block |-> <<>>, in_profiler_block |-> FALSE]

\* CloseBlock without the test "if metrics": an empty block is kept too
CloseBlockAlways(st) ==
    [st EXCEPT !.in_profiler_block = FALSE,
               !.profiler_blocks = Append(@, parse_profiler_block(st.current_block))]

\* a closing end sentinel: the block is parsed and kept if it holds any field
CloseBlock(st) ==
    LET m == parse_profiler_block(st.current_block)
    IN [st EXCEPT !.in_profiler_block = FALSE,
                  !.profiler_blocks = IF m # EmptyDict THEN Append(@, m) ELSE @]

\* the body of extract_metrics' loop, for one line
ExtractStep(st, line) ==
    LET mips == parse_ips_line(line)
        s1 == IF mips # <<>>
              THEN [st EXCEPT !.mips_values = Append(@, mips[1])] ELSE st
    IN IF Contains(line, StartSentinel)
       THEN [s1 EXCEPT !.in_profiler_block = TRUE, !.current_block = <<>>]
       ELSE IF Contains(line, EndSentinel) /\ s1.in_profiler_block
       THEN CloseBlock(s1)
       ELSE IF s1.in_profiler_block
       THEN [s1 EXCEPT !.current_block = Append(@, line)]
       ELSE s1

RECURSIVE ExtractFrom(_, _)
ExtractFrom(st, ls) ==
    IF ls = <<>> THEN st ELSE ExtractFrom(ExtractStep(st, Head(ls)), Tail(ls))

\* any('assert failed' in line.lower() for line in lines)
WifiError(ls) == \E i \in 1..Len(ls) : Contains(Lower(ls[i]), "assert failed")

\* any('WiFi connected' in line for line in lines)
WifiConnected(ls) == \E i \in 1..Len(ls) : Contains(ls[i], "WiFi connected")

extract_metrics(ls) ==
    LET st == ExtractFrom(ExtractInit, ls)
    IN [mips_values |-> st.mips_values,
        profiler_blocks |-> st.profiler_blocks,
        wifi_connected |-> WifiConnected(ls),
        wifi_error |-> WifiError(ls)]

(***************************************************************************)
(* Aggregator.  A mean is held as the exact fraction <<sum, count>>.       *)
(***************************************************************************)
mean(s) == <<SumSeq(s), Len(s)>>

MinOf(s) == CHOOSE x \in {s[i] : i \in 1..Len(s)} : \A j \in 1..Len(s) : x <= s[j]
MaxOf(s) == CHOOSE x \in {s[i] : i \in 1..Len(s)} : \A j \in 1..Len(s) : x >= s[j]

\* statistics.stdev, held as its square (the sample variance) <<num, den>>
stdev(s) ==
    LET n == Len(s)
        sq == [i \in 1..n |-> s[i] * s[i]]
    IN <<n * SumSeq(sq) - SumSeq(s) * SumSeq(s), n * (n - 1)>>

\* bottlenecks.count(x)
Count(s, x) == Cardinality({i \in 1..Len(s) : s[i] = x})

RECURSIVE MaxFrom(_, _, _)
\* max(iterable, key=...): a later element replaces the best only if its key is greater
MaxFrom(best, rest, s) ==
    IF rest = <<>> THEN best
    ELSE MaxFrom(IF Count(s, Head(rest)) > Count(s, best) THEN Head(rest) ELSE best,
                 Tail(rest), s)

\* MajorityVote without the key: the first category of the iteration wins
MajorityVoteFirst(order, bottlenecks) == Head(order)

\* max(set(bottlenecks), key=bottlenecks.count), the set iterated in `order`
MajorityVote(order, bottlenecks) == MaxFrom(Head(order), Tail(order), bottlenecks)

\* the orders in which a set may be iterated
Orders(S) ==
    {o \in [1..Cardinality(S) -> S] : \A i, j \in DOMAIN o : i # j => o[i] # o[j]}

AllHave(blocks, k) == \A i \in 1..Len(blocks) : k \in DOMAIN blocks[i]

Field(blocks, k) == [i \in 1..Len(blocks) |-> blocks[i][k]]

\* [b.get('bottleneck', 'Unknown') for b in blocks]
Bottlenecks(blocks) ==
    [i \in 1..Len(blocks) |-> Get(blocks[i], "bottleneck", "Unknown")]

\* WifiStatus with the two tests swapped: the connected flag takes precedence
WifiStatusConnectedFirst(m) ==
    IF m.wifi_connected THEN "Connected"
    ELSE IF m.wifi_error THEN "ERROR" ELSE "Unknown"

WifiStatus(m) ==
    IF m.wifi_error THEN "ERROR"
    ELSE IF m.wifi_connected THEN "Connected" ELSE "Unknown"

MipsStats(s0, m) ==
    IF m.mips_values # <<>>
    THEN LET v == m.mips_values
             s1 == Put(Put(Put(s0, "mips_avg", mean(v)),
                       "mips_min", MinOf(v)), "mips_max", MaxOf(v))
             s2 == IF Len(v) > 1 THEN Put(s1, "mips_stdev", stdev(v)) ELSE s1
         IN Put(s2, "mips_count", Len(v))
    ELSE s0

\* FieldAverages as best-effort averaging: each average is taken over the blocks
\* that hold the field, if any block does
FieldAveragesOverAvailable(s0, blocks) ==
    LET having(k) == SelectSeq(blocks, LAMBDA b : k \in DOMAIN b)
        avg(s, name, k) == IF having(k) # <<>>
                           THEN Put(s, name, mean(Field(having(k), k))) ELSE s
    IN avg(avg(avg(s0, "cycles_avg", "total_cycles"), "exec_pct_avg", "exec_pct"),
           "psram_bw_avg", "psram_total_kbps")

FieldAverages(s0, blocks) ==
    LET s1 == IF AllHave(blocks, "total_cycles")
              THEN Put(s0, "cycles_avg", mean(Field(blocks, "total_cycles"))) ELSE s0
        s2 == IF AllHave(blocks, "exec_pct")
              THEN Put(s1, "exec_pct_avg", mean(Field(blocks, "exec_pct"))) ELSE s1
    IN IF AllHave(blocks, "psram_total_kbps")
       THEN Put(s2, "psram_bw_avg", mean(Field(blocks, "psram_total_kbps"))) ELSE s2

ProfilerStats(s0, m, order) ==
    IF m.profiler_blocks # <<>>
    THEN LET blocks == m.profiler_blocks
             s1 == FieldAverages(s0, blocks)
             s2 == Put(s1, "bottleneck", MajorityVote(order, Bottlenecks(blocks)))
         IN Put(s2, "profiler_count", Len(blocks))
    ELSE s0

\* calculate_summary, with the iteration order of set(bottlenecks) as `order`
calculate_summary(m, order) ==
    ProfilerStats(MipsStats(Put(EmptyDict, "wifi_status", WifiStatus(m)), m), m, order)

\* the iteration orders set(bottlenecks) may have (one dummy order without blocks)
VoteOrders(m) ==
    IF m.profiler_blocks = <<>> THEN {<<"Unknown">>}
    ELSE Orders({Bottlenecks(m.profiler_blocks)[i] : i \in 1..Len(m.profiler_blocks)})

(***************************************************************************)
(* Reporters.  A file is the sequence of pieces written to it.  The date   *)
(* column of a ledger row and the timestamp of a capture file's name come  *)
(* from the clock and are left out.                                        *)
(***************************************************************************)
RECURSIVE Join(_, _)
\* sep.join(ls)
Join(sep, ls) ==
    IF ls = <<>> THEN <<>>
    ELSE IF Len(ls) = 1 THEN Head(ls)
    ELSE Head(ls) \o <<sep>> \o Join(sep, Tail(ls))

\* save_raw_capture: one more capture file, holding '\n'.join(lines)
save_raw_capture(files, ls) == Append(files, Join(Text("\n"), ls))

\* format(x, '.0f') of the fraction num/den >= 0 (ties go to the even neighbour);
\* on values held in hundredths this is format(x, '.2f')
RoundHalfEven(num, den) ==
    LET q == num \div den
        r == num % den
    IN IF 2 * r < den THEN q
       ELSE IF 2 * r > den THEN q + 1
       ELSE IF q % 2 = 0 THEN q ELSE q + 1

\* the header append_to_tracking_doc writes: title, text and the table's column titles
Header ==
    [label |-> "Label", mips_avg |-> <<"MIPS (avg)">>, mips_range |-> <<"MIPS (range)">>,
     cycles |-> <<"Cycles/instr">>, exec_pct |-> <<"Exec %">>, psram_bw |-> <<"PSRAM BW">>,
     bottleneck |-> "Bottleneck", wifi |-> "WiFi"]

NoFile == [exists |-> FALSE, content |-> <<>>]

\* open(path, 'w') and one write
WriteFile(f, piece) == [exists |-> TRUE, content |-> <<piece>>]

\* open(path, 'a') and one write
AppendFile(f, piece) == [exists |-> TRUE, content |-> Append(f.content, piece)]

Rendered(sm, k, unit) ==
    IF k \in DOMAIN sm THEN <<RoundHalfEven(sm[k][1], sm[k][2]), unit>> ELSE <<"N/A">>

\* the row append_to_tracking_doc formats
FormatRow(sm, label) ==
    [label |-> label,
     mips_avg |-> Rendered(sm, "mips_avg", ""),
     mips_range |-> IF "mips_min" \in DOMAIN sm
                    THEN <<Get(sm, "mips_min", 0), "-", Get(sm, "mips_max", 0)>>
                    ELSE <<"N/A">>,
     cycles |-> Rendered(sm, "cycles_avg", ""),
     exec_pct |-> Rendered(sm, "exec_pct_avg", "%"),
     psram_bw |-> Rendered(sm, "psram_bw_avg", " KB/s"),
     bottleneck |-> Get(sm, "bottleneck", "N/A"),
     wifi |-> Get(sm, "wifi_status", "Unknown")]

\* EnsureHeader without the os.path.exists test: the header is written every time
EnsureHeaderAlways(f) == WriteFile(f, Header)

\* the header is written only if the file does not exist
EnsureHeader(f) == IF ~f.exists THEN WriteFile(f, Header) ELSE f

append_to_tracking_doc(f, sm, label) ==
    AppendFile(EnsureHeader(f), FormatRow(sm, label))

(***************************************************************************)
(* The pure functions on their own: extract_metrics and calculate_summary  *)
(* on every sequence of at most MaxExtractLen block lines and on every     *)
(* sequence of at most MaxMarkerLen marker lines.                          *)
(***************************************************************************)
ExtractLines == {L_START, L_END, L_BCPU, L_CYC, L_CONN, L_FAILUP}

\* lines that hold the status markers in several letter cases, or nearly match
MarkerLines == {L_BOTH, L_CONN, L_CONNLOW, L_FAIL, L_PARTIAL, L_OTHER, L_IPS}

NoMetrics ==
    [mips_values |-> <<>>, profiler_blocks |-> <<>>,
     wifi_connected |-> FALSE, wifi_error |-> FALSE]

DefaultLabel == "capture"

\* the values of the variables a specification does not use
Idle ==
    /\ noSave = FALSE
    /\ port = <<>>
    /\ ser = "none"
    /\ pending = None
    /\ interrupts = 0
    /\ cur = <<>>
    /\ endedBy = [how |-> None, lines |-> <<>>]
    /\ printed = FALSE
    /\ transcript = <<>>
    /\ calls = <<>>
    /\ exitStatus = "running"

InitExtract ==
    /\ Idle
    /\ pc = "extract"
    /\ lines \in SeqUpTo(ExtractLines, MaxExtractLen) \cup SeqUpTo(MarkerLines, MaxMarkerLen)
    /\ metrics = NoMetrics
    /\ summary = EmptyDict
    /\ ledger = NoFile
    /\ ledger0 = NoFile

\* main: metrics = extract_metrics(lines)
ExtractMetrics ==
    /\ pc = "extract"
    /\ metrics' = extract_metrics(lines)
    /\ pc' = "summarize"
    /\ UNCHANGED <<noSave, port, ser, lines, pending, interrupts, cur, endedBy,
                   summary, printed, transcript, ledger, ledger0, calls, exitStatus>>

\* main: summary = calculate_summary(metrics)
CalculateSummary ==
    /\ pc = "summarize"
    /\ \E order \in VoteOrders(metrics) : summary' = calculate_summary(metrics, order)
    /\ pc' = "print_summary"
    /\ UNCHANGED <<noSave, port, ser, lines, pending, interrupts, cur, endedBy,
                   metrics, printed, transcript, ledger, ledger0, calls, exitStatus>>

NextExtract == ExtractMetrics \/ CalculateSummary

SpecExtract == InitExtract /\ [][NextExtract]_vars

(***************************************************************************)
(* calculate_summary on its own: every sequence of at most MaxBlocks      *)
(* blocks that parse_profiler_block can return and extract_metrics keeps.  *)
(***************************************************************************)
BlockLines == {L_CYC, L_BW, L_BCPU, L_BPSRAM}

BlockSet == {parse_profiler_block(ls) : ls \in SeqUpTo(BlockLines, 3)} \ {EmptyDict}

InitSummary ==
    /\ Idle
    /\ pc = "summarize"
    /\ lines = <<>>
    /\ metrics \in [mips_values : {<<>>, <<207, 195>>},
                    profiler_blocks : SeqUpTo(BlockSet, MaxBlocks),
                    wifi_connected : BOOLEAN,
                    wifi_error : BOOLEAN]
    /\ summary = EmptyDict
    /\ ledger = NoFile
    /\ ledger0 = NoFile

NextSummary == CalculateSummary

SpecSummary == InitSummary /\ [][NextSummary]_vars

(***************************************************************************)
(* append_to_tracking_doc on its own: up to MaxCalls invocations in a row  *)
(* on a ledger that does not exist, or exists with some content.           *)
(***************************************************************************)
LedgerSummaries ==
    {calculate_summary(extract_metrics(ls), <<"CPU">>) :
        ls \in {<<L_OTHER>>, <<L_IPS, L_START, L_CYC, L_BW, L_BCPU, L_END, L_CONN>>,
                <<L_FAILUP>>}}

Labels == {DefaultLabel, "baseline"}

InitLedger ==
    /\ Idle
    /\ pc = "append_doc"
    /\ lines = <<>>
    /\ metrics = NoMetrics
    /\ summary = EmptyDict
    /\ ledger \in {NoFile,
                   [exists |-> TRUE, content |-> <<>>],
                   [exists |-> TRUE, content |-> <<Header, FormatRow(EmptyDict, "old")>>]}
    /\ ledger0 = ledger

\* one invocation of append_to_tracking_doc
AppendCall ==
    /\ pc = "append_doc"
    /\ Len(calls) < MaxCalls
    /\ \E sm \in LedgerSummaries, label \in Labels :
          /\ ledger' = append_to_tracking_doc(ledger, sm, label)
          /\ calls' = Append(calls, <<sm, label>>)
    /\ UNCHANGED <<pc, noSave, port, ser, lines, pending, interrupts, cur, endedBy,
                   metrics, summary, printed, transcript, ledger0, exitStatus>>

NextLedger == AppendCall

SpecLedger == InitLedger /\ [][NextLedger]_vars

(***************************************************************************)
(* One run of main.  The environment decides which ports open, what the    *)
(* clock says at the loop test, what the device delivers, which reads      *)
(* raise, and when an interrupt signal arrives: at any position from the   *)
(* open of the channel until capture_serial is left.                       *)
(***************************************************************************)
NumBackupPorts == 3

PortsToTry == 1..(1 + NumBackupPorts)

DeviceLines == {L_EMPTY, L_IPS, L_CONN, L_FAILUP, L_START, L_BCPU, L_END}

\* the positions inside capture_serial's try block (lines 118-132)
TryBody == {"loop_test", "in_waiting", "readline", "retain", "read_error", "sleep",
            "loop_done"}

\* the positions of capture_serial after the open
AfterOpen == {"cap_setup", "except_kbd", "finally", "return"} \cup TryBody

Init ==
    /\ pc = "find_port"
    /\ noSave \in BOOLEAN
    /\ port = <<>>
    /\ ser = "none"
    /\ lines = <<>>
    /\ pending = None
    /\ interrupts = 0
    /\ cur = <<>>
    /\ endedBy = [how |-> None, lines |-> <<>>]
    /\ metrics = NoMetrics
    /\ summary = EmptyDict
    /\ printed = FALSE
    /\ transcript = <<>>
    /\ ledger \in {NoFile, [exists |-> TRUE, content |-> <<Header>>]}
    /\ ledger0 = ledger
    /\ calls = <<>>
    /\ exitStatus = "running"

\* sys.exit(code)
Exit(code) == pc' = "exited" /\ exitStatus' = code

\* find_serial_port: the first port of ports_to_try that opens, or None
find_serial_port(openable) ==
    IF openable = {} THEN <<>>
    ELSE <<CHOOSE p \in openable : \A q \in openable : p <= q>>

\* main, lines 322-326
FindSerialPort ==
    /\ pc = "find_port"
    /\ \E openable \in SUBSET PortsToTry : port' = find_serial_port(openable)
    /\ IF port' = <<>> THEN Exit("1") ELSE pc' = "open" /\ UNCHANGED exitStatus
    /\ UNCHANGED <<noSave, ser, lines, pending, interrupts, cur, endedBy, metrics,
                   summary, printed, transcript, ledger, ledger0, calls>>

\* capture_serial, lines 105-109
OpenPort ==
    /\ pc = "open"
    /\ \/ ser' = "open" /\ pc' = "cap_setup"
       \/ ser' = ser /\ pc' = "check_lines"     \* SerialException: return None, []
    /\ UNCHANGED <<noSave, port, lines, pending, interrupts, cur, endedBy, metrics,
                   summary, printed, transcript, ledger, ledger0, calls, exitStatus>>

\* capture_serial, lines 111-115: the last statements before the try block
CaptureSetup ==
    /\ pc = "cap_setup"
    /\ lines' = <<>>
    /\ pc' = "loop_test"
    /\ UNCHANGED <<noSave, port, ser, pending, interrupts, cur, endedBy, metrics,
                   summary, printed, transcript, ledger, ledger0, calls, exitStatus>>

\* line 118: (time.time() - start_time) < duration, as the clock decides
LoopTest ==
    /\ pc = "loop_test"
    /\ \/ pc' = "in_waiting"
       \/ pc' = "loop_done"
    /\ UNCHANGED <<noSave, port, ser, lines, pending, interrupts, cur, endedBy, metrics,
                   summary, printed, transcript, ledger, ledger0, calls, exitStatus>>

\* line 119: ser.in_waiting has data, has none, or raises (outside the inner try)
InWaiting ==
    /\ pc = "in_waiting"
    /\ \/ pc' = "readline" /\ UNCHANGED <<pending, endedBy>>
       \/ pc' = "sleep" /\ UNCHANGED <<pending, endedBy>>
       \/ /\ pc' = "finally"
          /\ pending' = "Exception"
          /\ endedBy' = [how |-> "error", lines |-> lines]
    /\ UNCHANGED <<noSave, port, ser, lines, interrupts, cur, metrics,
                   summary, printed, transcript, ledger, ledger0, calls, exitStatus>>

\* line 121: readline, decode and strip give a line, or raise
ReadLine ==
    /\ pc = "readline"
    /\ \/ \E l \in DeviceLines :
             /\ l # <<>> => Len(lines) < MaxLines
             /\ cur' = l
             /\ pc' = IF l # <<>> THEN "retain" ELSE "loop_test"
       \/ cur' = cur /\ pc' = "read_error"
    /\ UNCHANGED <<noSave, port, ser, lines, pending, interrupts, endedBy, metrics,
                   summary, printed, transcript, ledger, ledger0, calls, exitStatus>>

\* lines 123-124: print(line); lines.append(line)
Retain ==
    /\ pc = "retain"
    /\ lines' = Append(lines, cur)
    /\ cur' = <<>>
    /\ pc' = "loop_test"
    /\ UNCHANGED <<noSave, port, ser, pending, interrupts, endedBy, metrics,
                   summary, printed, transcript, ledger, ledger0, calls, exitStatus>>

\* lines 125-126: except Exception: print the read error, go on
ReadError ==
    /\ pc = "read_error"
    /\ pc' = "loop_test"
    /\ UNCHANGED <<noSave, port, ser, lines, pending, interrupts, cur, endedBy, metrics,
                   summary, printed, transcript, ledger, ledger0, calls, exitStatus>>

\* line 128: time.sleep(0.01)
Sleep ==
    /\ pc = "sleep"
    /\ pc' = "loop_test"
    /\ UNCHANGED <<noSave, port, ser, lines, pending, interrupts, cur, endedBy, metrics,
                   summary, printed, transcript, ledger, ledger0, calls, exitStatus>>

\* lines 130-132: the duration has elapsed
LoopDone ==
    /\ pc = "loop_done"
    /\ endedBy' = [how |-> "duration", lines |-> lines]
    /\ pc' = "finally"
    /\ UNCHANGED <<noSave, port, ser, lines, pending, interrupts, cur, metrics,
                   summary, printed, transcript, ledger, ledger0, calls, exitStatus>>

\* InterruptTarget of a try block with no "except KeyboardInterrupt" clause
InterruptTargetNoHandler(p) ==
    IF p \in TryBody \cup {"except_kbd"} THEN "finally" ELSE "uncaught"

\* where a KeyboardInterrupt raised at position p goes: the handler of the try
\* block, the finally clause (raised in the handler), or out of capture_serial
InterruptTarget(p) ==
    IF p \in TryBody THEN "except_kbd"
    ELSE IF p = "except_kbd" THEN "finally"
    ELSE "uncaught"

\* an interrupt signal: KeyboardInterrupt is raised at the current position
Interrupt ==
    /\ pc \in AfterOpen
    /\ interrupts < MaxInterrupts
    /\ interrupts' = interrupts + 1
    /\ pc' = InterruptTarget(pc)
    /\ pending' = IF pc' = "except_kbd" THEN pending ELSE "KeyboardInterrupt"
    /\ endedBy' = IF pc \in TryBody THEN [how |-> "interrupt", lines |-> lines]
                  ELSE endedBy
    /\ UNCHANGED <<noSave, port, ser, lines, cur, metrics,
                   summary, printed, transcript, ledger, ledger0, calls, exitStatus>>

\* lines 134-136: except KeyboardInterrupt
ExceptInterrupt ==
    /\ pc = "except_kbd"
    /\ pc' = "finally"
    /\ UNCHANGED <<noSave, port, ser, lines, pending, interrupts, cur, endedBy, metrics,
                   summary, printed, transcript, ledger, ledger0, calls, exitStatus>>

\* lines 137-138: finally: ser.close(); a pending exception then goes on to main
Finally ==
    /\ pc = "finally"
    /\ ser' = "closed"
    /\ pc' = IF pending # None THEN "uncaught" ELSE "return"
    /\ UNCHANGED <<noSave, port, lines, pending, interrupts, cur, endedBy, metrics,
                   summary, printed, transcript, ledger, ledger0, calls, exitStatus>>

\* line 140: return elapsed, lines
Return ==
    /\ pc = "return"
    /\ pc' = "check_lines"
    /\ UNCHANGED <<noSave, port, ser, lines, pending, interrupts, cur, endedBy, metrics,
                   summary, printed, transcript, ledger, ledger0, calls, exitStatus>>

\* the status of a process that dies of an exception main does not handle
UncaughtStatus(exc) == IF exc = "KeyboardInterrupt" THEN "130" ELSE "1"

\* main handles no exception: the interpreter ends the process
Uncaught ==
    /\ pc = "uncaught"
    /\ Exit(UncaughtStatus(pending))
    /\ UNCHANGED <<noSave, port, ser, lines, pending, interrupts, cur, endedBy, metrics,
                   summary, printed, transcript, ledger, ledger0, calls>>

\* main, lines 335-337
CheckLines ==
    /\ pc = "check_lines"
    /\ IF lines = <<>> THEN Exit("1") ELSE pc' = "extract" /\ UNCHANGED exitStatus
    /\ UNCHANGED <<noSave, port, ser, lines, pending, interrupts, cur, endedBy, metrics,
                   summary, printed, transcript, ledger, ledger0, calls>>

\* main, lines 344-347
PrintSummary ==
    /\ pc = "print_summary"
    /\ printed' = TRUE
    /\ pc' = IF ~noSave THEN "save" ELSE "exit_code"
    /\ UNCHANGED <<noSave, port, ser, lines, pending, interrupts, cur, endedBy, metrics,
                   summary, transcript, ledger, ledger0, calls, exitStatus>>

\* main, line 348
SaveRawCapture ==
    /\ pc = "save"
    /\ transcript' = save_raw_capture(transcript, lines)
    /\ pc' = "append_row"
    /\ UNCHANGED <<noSave, port, ser, lines, pending, interrupts, cur, endedBy, metrics,
                   summary, printed, ledger, ledger0, calls, exitStatus>>

\* main, line 349
AppendToTrackingDoc ==
    /\ pc = "append_row"
    /\ ledger' = append_to_tracking_doc(ledger, summary, DefaultLabel)
    /\ calls' = Append(calls, <<summary, DefaultLabel>>)
    /\ pc' = "exit_code"
    /\ UNCHANGED <<noSave, port, ser, lines, pending, interrupts, cur, endedBy, metrics,
                   summary, printed, transcript, ledger0, exitStatus>>

\* the exit status main's last lines choose
ExitCode(m) == IF m.wifi_error THEN "2" ELSE "0"

\* main, lines 352-356
ExitWithStatus ==
    /\ pc = "exit_code"
    /\ Exit(ExitCode(metrics))
    /\ UNCHANGED <<noSave, port, ser, lines, pending, interrupts, cur, endedBy, metrics,
                   summary, printed, transcript, ledger, ledger0, calls>>

Next ==
    \/ FindSerialPort \/ OpenPort \/ CaptureSetup \/ LoopTest \/ InWaiting
    \/ ReadLine \/ Retain \/ ReadError \/ Sleep \/ LoopDone
    \/ Interrupt \/ ExceptInterrupt \/ Finally \/ Return \/ Uncaught
    \/ CheckLines \/ ExtractMetrics \/ CalculateSummary \/ PrintSummary
    \/ SaveRawCapture \/ AppendToTrackingDoc \/ ExitWithStatus

Spec == Init /\ [][Next]_vars

(***************************************************************************)
(* Properties.                                                             *)
(***************************************************************************)
\* some line holds the failure marker 'assert failed' in any letter case
HasFailureMarker(ls) ==
    \E i \in 1..Len(ls) : \E k \in 1..Len(ls[i]) :
        ls[i][k].kind = "text" /\ LowerText(ls[i][k].text) = "assert failed"

\* some line holds the connected marker 'WiFi connected'
HasConnectedMarker(ls) ==
    \E i \in 1..Len(ls) : \E k \in 1..Len(ls[i]) :
        ls[i][k].kind = "text" /\ ls[i][k].text = "WiFi connected"

\* the positions of main once capture_serial has been left
LeftCapture ==
    {"uncaught", "check_lines", "extract", "summarize", "print_summary", "save",
     "append_row", "exit_code", "exited"}

\* C1: every run of main exits with status 0, 1 or 2: 1 exactly when no port could
\* be opened or no line was captured, 2 exactly when a line was captured and some
\* captured line holds the failure marker, 0 exactly when a line was captured and
\* none holds it.
C1_ExitStatusDetermined ==
    pc = "exited" =>
        /\ exitStatus \in {"0", "1", "2"}
        /\ exitStatus = "1" <=> (port = <<>> \/ lines = <<>>)
        /\ exitStatus = "2" <=> (lines # <<>> /\ HasFailureMarker(lines))
        /\ exitStatus = "0" <=> (lines # <<>> /\ ~HasFailureMarker(lines))

\* C2: once capture_serial has opened the channel, the channel is closed whenever
\* capture_serial has been left, and it is closed before a summary is printed or a
\* transcript or a ledger row is written.
C2_ChannelClosedOnEveryExit ==
    /\ (pc \in LeftCapture /\ ser # "none") => ser = "closed"
    /\ (printed \/ transcript # <<>> \/ calls # <<>>) => ser = "closed"

\* what a run that got the lines ls from capture_serial has done when it exits
NormalOutcome(ls) ==
    LET saved == ls # <<>> /\ ~noSave
    IN /\ exitStatus = (IF ls = <<>> THEN "1"
                        ELSE IF HasFailureMarker(ls) THEN "2" ELSE "0")
       /\ printed = (ls # <<>>)
       /\ ls # <<>> => metrics = extract_metrics(ls)
       /\ transcript = (IF saved THEN <<Join(Text("\n"), ls)>> ELSE <<>>)
       /\ Len(calls) = (IF saved THEN 1 ELSE 0)
       /\ Len(ledger.content) = Len(ledger0.content)
              + (IF saved THEN (IF ledger0.exists THEN 1 ELSE 2) ELSE 0)

\* C3: an interrupt that arrives inside the try block of the read loop is caught:
\* it is not pending and main does not die of it, capture_serial returns the lines
\* retained when it arrived with the channel closed, and the run ends as a run
\* whose duration elapsed with the same lines ends.
C3_InterruptEndsCaptureNormally ==
    /\ (endedBy.how = "interrupt" /\ interrupts = 1) =>
          /\ pc # "uncaught"
          /\ pending = None
          /\ exitStatus \in {"running", "0", "1", "2"}
          /\ lines = endedBy.lines
          /\ pc \in LeftCapture => ser = "closed"
          /\ pc = "exited" => NormalOutcome(endedBy.lines)
    /\ (endedBy.how = "duration" /\ interrupts = 0 /\ pc = "exited") =>
          NormalOutcome(endedBy.lines)

C3_Witness ==
    /\ pc = "exited"
    /\ endedBy.how = "interrupt"
    /\ interrupts = 1
    /\ Len(endedBy.lines) = 2
    /\ exitStatus = "2"
    /\ Len(transcript) = 1

\* C4: no error raised in the read loop (polling for data, reading or decoding a
\* line) ends the capture: the loop is left only because the duration elapsed or
\* an interrupt arrived, and no such error propagates.
C4_ReadErrorsNeverEndCapture ==
    /\ endedBy.how \in {None, "duration", "interrupt"}
    /\ pending # "Exception"

\* the runs of lines ls[i+1..j-1] opened by a start sentinel at i and closed by
\* the first later end sentinel at j
ClosedRuns(ls) ==
    {r \in (1..Len(ls)) \X (1..Len(ls)) :
        /\ r[1] < r[2]
        /\ Contains(ls[r[1]], StartSentinel)
        /\ Contains(ls[r[2]], EndSentinel) /\ ~Contains(ls[r[2]], StartSentinel)
        /\ \A k \in (r[1] + 1)..(r[2] - 1) :
              ~Contains(ls[k], StartSentinel) /\ ~Contains(ls[k], EndSentinel)}

\* one of the three sub-patterns matches the line
Recognized(line) ==
    \/ \E k \in 1..Len(line) : line[k].kind \in {"cycles", "bw"}
    \/ Contains(line, "BOTTLENECK: CPU")
    \/ Contains(line, "BOTTLENECK: PSRAM")

\* the closed runs with a recognized field
FieldRuns(ls) ==
    {r \in ClosedRuns(ls) : \E k \in (r[1] + 1)..(r[2] - 1) : Recognized(ls[k])}

\* C5: extract_metrics emits exactly one block for each run of lines that a start
\* sentinel opens, a later end sentinel closes and that holds a recognized field:
\* each block is the parse of such a run, in the order the runs close; runs with no
\* field and unterminated runs give none; the blocks are at most the end sentinels.
C5_BlocksAreClosedRunsWithFields ==
    pc # "extract" =>
        LET blocks == metrics.profiler_blocks
            runs == FieldRuns(lines)
            ends == {j \in 1..Len(lines) : Contains(lines[j], EndSentinel)}
            closing == SelectIdx({r[2] : r \in runs}, 1, Len(lines))
        IN /\ Len(blocks) = Cardinality(runs)
           /\ Len(blocks) <= Cardinality(ends)
           /\ \A n \in 1..Len(blocks) :
                 /\ blocks[n] # EmptyDict
                 /\ \E r \in runs :
                       /\ r[2] = closing[n]
                       /\ blocks[n] = parse_profiler_block(
                                          SubSeq(lines, r[1] + 1, r[2] - 1))

\* a closed run with a field, then an unterminated run with a field
C5_Witness ==
    /\ pc = "summarize"
    /\ Len(lines) = 6
    /\ Cardinality(FieldRuns(lines)) = 1
    /\ Len(metrics.profiler_blocks) = 1
    /\ Contains(lines[4], StartSentinel)
    /\ Recognized(lines[5])
    /\ ~Contains(lines[6], EndSentinel)

\* C6: n >= 1 invocations of append_to_tracking_doc on a ledger that did not exist
\* leave the header once, followed by the n rows in invocation order; on a ledger
\* that existed they leave its content followed by the n rows.
C6_HeaderOnceThenRowsInOrder ==
    LET rows == [i \in 1..Len(calls) |-> FormatRow(calls[i][1], calls[i][2])]
    IN /\ (~ledger0.exists /\ calls # <<>>) => ledger.content = <<Header>> \o rows
       /\ ledger0.exists => ledger.content = ledger0.content \o rows
       /\ calls # <<>> => ledger.exists

C6_Witness ==
    /\ ~ledger0.exists
    /\ Len(calls) = 2
    /\ calls[1] # calls[2]
    /\ Len(ledger.content) = 3

\* C7: a run that captured at least one line and was not given the suppress flag
\* has written the transcript and exactly one ledger row when it exits; a run
\* given the flag has written neither.
C7_TranscriptAndRowWritten ==
    pc = "exited" =>
        /\ (lines # <<>> /\ ~noSave) =>
              /\ Len(transcript) = 1
              /\ Len(calls) = 1
              /\ ledger.content = (IF ledger0.exists THEN ledger0.content ELSE <<Header>>)
                                  \o <<FormatRow(summary, DefaultLabel)>>
        /\ noSave => transcript = <<>> /\ calls = <<>> /\ ledger = ledger0

\* C8: with at least one block, each of the three averages is in the summary
\* exactly when every block holds its field, and the block count is recorded.
C8_AveragesNeedEveryBlock ==
    (pc = "print_summary" /\ metrics.profiler_blocks # <<>>) =>
        LET blocks == metrics.profiler_blocks
            every(k) == \A i \in 1..Len(blocks) : k \in DOMAIN blocks[i]
        IN /\ "cycles_avg" \in DOMAIN summary <=> every("total_cycles")
           /\ "exec_pct_avg" \in DOMAIN summary <=> every("exec_pct")
           /\ "psram_bw_avg" \in DOMAIN summary <=> every("psram_total_kbps")
           /\ "profiler_count" \in DOMAIN summary
           /\ summary["profiler_count"] = Len(blocks)

C8_Witness ==
    /\ pc = "print_summary"
    /\ Len(metrics.profiler_blocks) = 2
    /\ "total_cycles" \in DOMAIN metrics.profiler_blocks[1]
    /\ "total_cycles" \notin DOMAIN metrics.profiler_blocks[2]
    /\ "cycles_avg" \notin DOMAIN summary
    /\ "psram_bw_avg" \in DOMAIN summary

\* the category of a block: its bottleneck tag, 'Unknown' without one
Category(b) == IF "bottleneck" \in DOMAIN b THEN b["bottleneck"] ELSE "Unknown"

\* the blocks of category c
Votes(blocks, c) == Cardinality({i \in 1..Len(blocks) : Category(blocks[i]) = c})

\* C9: with at least one block, the bottleneck of the summary is the category of
\* some block and no category has more blocks; untagged blocks vote as 'Unknown'.
C9_BottleneckHasMostVotes ==
    (pc = "print_summary" /\ metrics.profiler_blocks # <<>>) =>
        LET blocks == metrics.profiler_blocks
        IN /\ "bottleneck" \in DOMAIN summary
           /\ \E i \in 1..Len(blocks) : Category(blocks[i]) = summary["bottleneck"]
           /\ \A c \in {"CPU", "PSRAM", "Unknown"} :
                 Votes(blocks, c) <= Votes(blocks, summary["bottleneck"])

C9_Witness ==
    /\ pc = "print_summary"
    /\ Len(metrics.profiler_blocks) = 3
    /\ Votes(metrics.profiler_blocks, "Unknown") = 2
    /\ Votes(metrics.profiler_blocks, "CPU") = 1
    /\ summary["bottleneck"] = "Unknown"

\* C10: the status of the summary is 'ERROR' if any line holds the failure marker,
\* else 'Connected' if any line holds the connected marker, else 'Unknown'.
C10_StatusFromMarkers ==
    pc = "print_summary" =>
        summary["wifi_status"] =
            (IF HasFailureMarker(lines) THEN "ERROR"
             ELSE IF HasConnectedMarker(lines) THEN "Connected" ELSE "Unknown")

C10_Witness ==
    /\ pc = "print_summary"
    /\ lines = <<L_CONNLOW, L_BOTH>>
    /\ summary["wifi_status"] = "ERROR"

====
